---- MODULE Spec2Model ----
(***************************************************************************)
(* PyTeCK, pyteck/simulation.py: class Simulation.                         *)
(*   setup_case       builds the reactor objects and resolves the ignition *)
(*                    target;                                              *)
(*   run_case         drives the integrator to time_end and writes the     *)
(*                    trajectory table;                                    *)
(*   process_results  reads the table and extracts the ignition delays.    *)
(* Time is counted in integer ticks.  Values stored in the table are exact *)
(* rationals <<numerator, denominator>> with a positive denominator.       *)
(***************************************************************************)
EXTENDS Integers, Sequences, FiniteSets, TLC

VARIABLES
    composition_type,   \* properties.composition_type
    ign_spec,           \* the ignition-type dict the case was built with
    species_names,      \* species of the mechanism, in index order
    ignition_delay,     \* properties.ignition_delay.magnitude (ticks)
    compression_time,   \* properties.compression_time (None or ticks)
    integ,              \* behaviour of the external integrator
    ignition_type,      \* properties.ignition_type: "dict" or a criterion
    ignition_target,    \* properties.ignition_target
    gas,                \* self.gas exists
    time_end,           \* self.time_end
    reac,               \* self.reac and its state
    wall,               \* self.wall exists
    reac_net,           \* self.reac_net and its time
    save_file,          \* 'save-file' is a key of self.meta
    file,               \* the HDF5 file at the save-file path
    pc,                 \* position inside run_case: "idle" or "loop"
    restart,            \* argument of the current/last run_case call
    prev,               \* run_case's prev_* locals
    sim_delay,          \* meta['simulated-ignition-delay']
    first_stage,        \* meta['simulated-first-stage-delay']
    proc,               \* process_results' locals target, ind, ign_delays at its end
    last                \* last call and how it ended

vars == <<composition_type, ign_spec, species_names, ignition_delay,
          compression_time, integ, ignition_type, ignition_target, gas,
          time_end, reac, wall, reac_net, save_file, file, pc, restart, prev,
          sim_delay, first_stage, proc, last>>

inputs == <<composition_type, ign_spec, species_names, ignition_delay,
            compression_time, integ>>

(***************************************************************************)
(* Bounds of the model.                                                    *)
(***************************************************************************)
MaxLabelLen == 2     \* longest ignition-target label
MaxSpecies == 2      \* most species in a mechanism
MaxDelay == 1        \* largest experimental ignition delay (ticks)
MaxStep == 3         \* largest integrator step, in step quanta
MaxVal == 2          \* reaction-progress levels of the reactor state
StallSlack == 2      \* loop iterations explored beyond a progressing run
MaxLen == 5          \* most rows of a trajectory given to process_results
MaxSig == 2          \* largest sample of a target signal
MaxComp == 1         \* compression time of a rapid compression machine case (ticks)

(***************************************************************************)
(* Python values.                                                          *)
(***************************************************************************)
None == -1

TimeEndFactor == 100

Last(s) == s[Len(s)]

\* s[:-1]
ButLast(s) == SubSeq(s, 1, Len(s) - 1)

(***************************************************************************)
(* Strings are sequences of characters.                                    *)
(***************************************************************************)
Chars == {"H", "h", "*"}

LowerChar(c) == IF c = "H" THEN "h" ELSE c

\* str.lower()
Lower(s) == [i \in 1..Len(s) |-> LowerChar(s[i])]

RECURSIVE StringsOfLen(_)
StringsOfLen(n) ==
    IF n = 0 THEN {<<>>}
    ELSE {Append(s, c) : s \in StringsOfLen(n - 1), c \in Chars}

Labels == UNION {StringsOfLen(n) : n \in 1..MaxLabelLen}

SpeciesPool == {<<"H">>, <<"h">>, <<"H", "*">>, <<"h", "*">>}

IsInjective(s) == \A i, j \in DOMAIN s : s[i] = s[j] => i = j

RECURSIVE SeqsOver(_, _)
SeqsOver(S, n) ==
    IF n = 0 THEN {<<>>}
    ELSE {Append(s, x) : s \in SeqsOver(S, n - 1), x \in S}

Mechanisms ==
    {m \in UNION {SeqsOver(SpeciesPool, n) : n \in 1..MaxSpecies} : IsInjective(m)}

Criteria == {"max", "d/dt max", "1/2 max"}

CompositionTypes == {"mole fraction", "mole percent", "mass fraction", "volume fraction"}

ScalarTarget(k) == [kind |-> k, name |-> <<>>]
SpeciesTarget(s) == [kind |-> "species", name |-> s]

Targets == {ScalarTarget("pressure"), ScalarTarget("temperature")}
           \cup {SpeciesTarget(s) : s \in Labels}

(***************************************************************************)
(* setup_case: target resolution.                                          *)
(***************************************************************************)
\* a lookup that ignores case, as a variant of the one below
SpeciesIndex_AnyCase(names, sp) ==
    IF \E i \in DOMAIN names : Lower(names[i]) = Lower(sp)
    THEN (CHOOSE i \in DOMAIN names :
              /\ Lower(names[i]) = Lower(sp)
              /\ \A j \in 1..(i - 1) : Lower(names[j]) # Lower(sp)) - 1
    ELSE None

\* gas.species_index(sp): the 0-based index, None standing for the ValueError
SpeciesIndex(names, sp) ==
    IF \E i \in DOMAIN names : names[i] = sp
    THEN (CHOOSE i \in DOMAIN names : names[i] = sp) - 1
    ELSE None

TryList(spec) ==
    <<spec, Lower(spec)>>
    \o (IF Last(spec) = "*"
        THEN <<ButLast(spec), Lower(ButLast(spec))>>
        ELSE <<>>)

\* the for/try/break loop over try_list, from position k on
RECURSIVE FindIndex(_, _, _)
FindIndex(names, try_list, k) ==
    IF k > Len(try_list) THEN None
    ELSE IF SpeciesIndex(names, try_list[k]) # None
         THEN SpeciesIndex(names, try_list[k])
         ELSE FindIndex(names, try_list, k + 1)

\* Python truth value of ind ("if ind:")
Truthy(ind) == ind # None /\ ind # 0

FallbackType == "d/dt max"

IndexTarget(ind) == [kind |-> "species", ind |-> ind]
NamedTarget(k) == [kind |-> k, ind |-> None]

\* lines 310-340: the resolved <<ignition_target, ignition_type>>
ResolveTarget(names, spec) ==
    IF spec.target.kind \notin {"pressure", "temperature"}
    THEN LET ind == FindIndex(names, TryList(spec.target.name), 1)
         IN  IF Truthy(ind)
             THEN <<IndexTarget(ind), spec.type>>
             ELSE <<NamedTarget("pressure"), FallbackType>>
    ELSE <<NamedTarget(spec.target.kind), spec.type>>

\* a variant without the else branch
Unsupported_Never(ctype) == FALSE

\* the else branch of lines 238-250
Unsupported(ctype) ==
    ctype \notin {"mole fraction", "mole percent", "mass fraction"}

(***************************************************************************)
(* The reactor and the integrator (Cantera, an external collaborator).     *)
(* The reactor state is a function of a reaction-progress level v that the *)
(* integrator picks anew at every step; the fields differ from each other  *)
(* and are neither all increasing nor all decreasing in v.                 *)
(***************************************************************************)
NoReactor == [exists |-> FALSE, T |-> 0, P |-> 0, volume |-> 0, Y |-> <<>>]

ReactorState(v, n) ==
    [exists |-> TRUE,
     T      |-> v + 1,
     P      |-> 2 * v + 1,
     volume |-> MaxVal + 1 - v,
     Y      |-> [i \in 1..n |-> (v + i) % (MaxVal + 1)]]

NoNet == [exists |-> FALSE, time |-> 0]

StepQuantum == TimeEndFactor \div 2

\* the time advance of one reac_net.step(); a stalling integrator may not advance
StepSizes(behaviour) ==
    {k * StepQuantum : k \in (IF behaviour = "stalling" THEN 0 ELSE 1)..MaxStep}

\* loop iterations of run_case the model follows
LoopCap == 2 * MaxDelay + StallSlack

(***************************************************************************)
(* Rationals <<n, d>>, d > 0.                                              *)
(***************************************************************************)
R(v) == <<v, 1>>

RLess(a, b) == a[1] * b[2] < b[1] * a[2]

RLeq(a, b) == a[1] * b[2] <= b[1] * a[2]

REq(a, b) == a[1] * b[2] = b[1] * a[2]

RSub(a, b) == <<a[1] * b[2] - b[1] * a[2], a[2] * b[2]>>

RAbs(a) == <<IF a[1] < 0 THEN -a[1] ELSE a[1], a[2]>>

RBetween(x, a, b) == (RLeq(a, x) /\ RLeq(x, b)) \/ (RLeq(b, x) /\ RLeq(x, a))

(***************************************************************************)
(* run_case.                                                               *)
(***************************************************************************)
\* numpy.interp(x, [x0, x1], [y0, y1]) for x0 < x1
Interp(x, x0, x1, y0, y1) ==
    IF x <= x0 THEN R(y0)
    ELSE IF x >= x1 THEN R(y1)
    ELSE <<y0 * (x1 - x0) + (x - x0) * (y1 - y0), x1 - x0>>

\* lines 377-381 and 418-422: the row of the current integrator state
RawRow(t, r) ==
    [time           |-> t,
     temperature    |-> R(r.T),
     pressure       |-> R(r.P),
     volume         |-> R(r.volume),
     mass_fractions |-> [i \in DOMAIN r.Y |-> R(r.Y[i])]]

\* lines 392-415: the row interpolated to time_end
InterpRow(tend, p, t, r) ==
    [time           |-> tend,
     temperature    |-> Interp(tend, p.time, t, p.T, r.T),
     pressure       |-> Interp(tend, p.time, t, p.P, r.P),
     volume         |-> Interp(tend, p.time, t, p.volume, r.volume),
     mass_fractions |-> [i \in DOMAIN r.Y |-> Interp(tend, p.time, t, p.Y[i], r.Y[i])]]

Unbound == [bound |-> FALSE, time |-> 0, T |-> 0, P |-> 0, volume |-> 0, Y |-> <<>>]

\* lines 428-432
Saved(t, r) ==
    [bound |-> TRUE, time |-> t, T |-> r.T, P |-> r.P, volume |-> r.volume, Y |-> r.Y]

NoFile == [exists |-> FALSE, rows |-> <<>>]

\* a result file left by an earlier batch run
OldFile == [exists |-> TRUE, rows |-> <<RawRow(0, ReactorState(0, 1))>>]

\* a variant that skips whenever the file exists
ShouldSkip_IfExists(rst, exists) == exists

\* line 352
ShouldSkip(rst, exists) == rst /\ exists

Ended(op, res) == [op |-> op, res |-> res]

SetupCase ==
    /\ pc = "idle"
    /\ gas' = TRUE
    /\ time_end' = TimeEndFactor * ignition_delay
    /\ IF Unsupported(composition_type)
       THEN /\ last' = Ended("setup_case", "BaseException")
            /\ UNCHANGED <<reac, wall, reac_net, ignition_type, ignition_target, save_file>>
       ELSE /\ reac' = ReactorState(0, Len(species_names))
            /\ wall' = TRUE
            /\ reac_net' = [exists |-> TRUE, time |-> 0]
            /\ IF ignition_type # "dict"
               THEN \* line 310 indexes a str with 'target'
                    /\ last' = Ended("setup_case", "TypeError")
                    /\ UNCHANGED <<ignition_type, ignition_target, save_file>>
               ELSE /\ ignition_target' = ResolveTarget(species_names, ign_spec)[1]
                    /\ ignition_type' = ResolveTarget(species_names, ign_spec)[2]
                    /\ save_file' = TRUE
                    /\ last' = Ended("setup_case", "ok")
    /\ UNCHANGED <<inputs, file, pc, restart, prev, sim_delay, first_stage, proc>>

RunRaise(res) ==
    /\ last' = Ended("run_case", res)
    /\ UNCHANGED <<file, pc>>

RunBegin ==
    /\ pc = "idle"
    /\ \E r \in BOOLEAN :
        /\ restart' = r
        /\ IF r /\ ~save_file
           THEN RunRaise("KeyError")
           ELSE IF ShouldSkip(r, file.exists)
           THEN RunRaise("skipped")
           ELSE IF ~reac.exists
           THEN RunRaise("AttributeError")
           ELSE IF ~save_file
           THEN RunRaise("KeyError")
           ELSE /\ file' = [exists |-> TRUE, rows |-> <<RawRow(reac_net.time, reac)>>]
                /\ IF reac_net.time < time_end
                   THEN pc' = "loop" /\ last' = Ended("run_case", "running")
                   ELSE pc' = "idle" /\ last' = Ended("run_case", "done")
    /\ prev' = Unbound
    /\ UNCHANGED <<inputs, ignition_type, ignition_target, gas, time_end, reac, wall,
                   reac_net, save_file, sim_delay, first_stage, proc>>

RunStep ==
    /\ pc = "loop"
    /\ Len(file.rows) <= LoopCap
    /\ \E dt \in StepSizes(integ), v \in 0..MaxVal :
        LET t == reac_net.time + dt
            r == ReactorState(v, Len(species_names))
        IN  /\ reac_net' = [reac_net EXCEPT !.time = t]
            /\ reac' = r
            /\ IF t > time_end /\ ~prev.bound
               THEN \* line 395 reads prev_time before any assignment
                    /\ last' = Ended("run_case", "UnboundLocalError")
                    /\ pc' = "idle"
                    /\ UNCHANGED <<file, prev>>
               ELSE /\ file' = [file EXCEPT !.rows =
                                  Append(@, IF t > time_end
                                            THEN InterpRow(time_end, prev, t, r)
                                            ELSE RawRow(t, r))]
                    /\ prev' = Saved(t, r)
                    /\ IF t < time_end
                       THEN UNCHANGED <<pc, last>>
                       ELSE pc' = "idle" /\ last' = Ended("run_case", "done")
    /\ UNCHANGED <<inputs, ignition_type, ignition_target, gas, time_end, wall,
                   save_file, restart, sim_delay, first_stage, proc>>

NoDelay == [set |-> FALSE, nan |-> FALSE, value |-> 0]

NoLocals == [target |-> <<>>, ind |-> <<>>, ign_delays |-> <<>>]

InitObject ==
    /\ ignition_type = "dict"
    /\ ignition_target = [kind |-> "unset", ind |-> None]
    /\ gas = FALSE
    /\ time_end = 0
    /\ reac = NoReactor
    /\ wall = FALSE
    /\ reac_net = NoNet
    /\ save_file = FALSE
    /\ pc = "idle"
    /\ restart = FALSE
    /\ prev = Unbound
    /\ sim_delay = NoDelay
    /\ first_stage = NoDelay
    /\ proc = NoLocals
    /\ last = Ended("__init__", "ok")

\* one case, set up and run any number of times
Init ==
    /\ composition_type \in CompositionTypes
    /\ ign_spec = [target |-> ScalarTarget("pressure"), type |-> "max"]
    /\ species_names = <<<<"H">>, <<"h", "*">>>>
    /\ ignition_delay \in 1..MaxDelay
    /\ compression_time = None
    /\ integ = "progressing"
    /\ file \in {NoFile, OldFile}
    /\ InitObject

Next == SetupCase \/ RunBegin \/ RunStep

Spec == Init /\ [][Next]_vars

\* the same, with an integrator that may fail to advance
InitStall ==
    /\ composition_type = "mole fraction"
    /\ ign_spec = [target |-> ScalarTarget("pressure"), type |-> "max"]
    /\ species_names = <<<<"H">>>>
    /\ ignition_delay \in 1..MaxDelay
    /\ compression_time = None
    /\ integ = "stalling"
    /\ file = NoFile
    /\ InitObject

SpecStall == InitStall /\ [][Next]_vars

\* setup_case alone, over every label and mechanism
InitSetup ==
    /\ composition_type \in CompositionTypes
    /\ ign_spec \in [target : Targets, type : Criteria]
    /\ species_names \in Mechanisms
    /\ ignition_delay = 1
    /\ compression_time = None
    /\ integ = "progressing"
    /\ file = NoFile
    /\ InitObject

NextSetup == SetupCase

SpecSetup == InitSetup /\ [][NextSetup]_vars

(***************************************************************************)
(* process_results.  Rows and samples are numbered from 1 here: position p *)
(* is Python index p - 1.                                                  *)
(***************************************************************************)
RAdd(a, b) == <<a[1] * b[2] + b[1] * a[2], a[2] * b[2]>>

RScale(k, a) == <<k * a[1], a[2]>>

RDiv(a, k) == <<a[1], a[2] * k>>

\* numpy.gradient(y, x, edge_order=2) at position i of n >= 3 samples
GradientAt(x, y, i) ==
    LET n == Len(x)
        m == IF i = 1 THEN 2 ELSE IF i = n THEN n - 1 ELSE i
        dx1 == x[m] - x[m - 1]
        dx2 == x[m + 1] - x[m]
        a == IF i = 1 THEN -((2 * dx1 + dx2) * dx2)
             ELSE IF i = n THEN dx2 * dx2
             ELSE -(dx2 * dx2)
        b == IF i = 1 THEN (dx1 + dx2) * (dx1 + dx2)
             ELSE IF i = n THEN -((dx1 + dx2) * (dx1 + dx2))
             ELSE (dx2 - dx1) * (dx2 + dx1)
        c == IF i = 1 THEN -(dx1 * dx1)
             ELSE IF i = n THEN (2 * dx2 + dx1) * dx1
             ELSE dx1 * dx1
    IN  RDiv(RAdd(RScale(a, y[m - 1]), RAdd(RScale(b, y[m]), RScale(c, y[m + 1]))),
             dx1 * dx2 * (dx1 + dx2))

\* first_derivative(x, y), lines 33-46
first_derivative(x, y) == [i \in 1..Len(x) |-> GradientAt(x, y, i)]

\* numpy.gradient raises ValueError on fewer than edge_order + 1 samples
GradientRaises(x) == Len(x) < 3

\* the positions in S, ascending, as a sequence over 1..n
Ascending(S, n) == SelectSeq([i \in 1..n |-> i], LAMBDA i : i \in S)

\* samples exceeding both immediate neighbours
LocalMaxima(x) ==
    {i \in 2..(Len(x) - 1) : RLess(x[i - 1], x[i]) /\ RLess(x[i + 1], x[i])}

\* detect_peaks(x): the local maxima that its prominence/separation policy
\* keeps, in index order; the policy is left open
detect_peaks(x) == {Ascending(S, Len(x)) : S \in SUBSET LocalMaxima(x)}

\* numpy.argmax(v): the first position of the largest element of v
ArgMax(v) ==
    CHOOSE j \in DOMAIN v :
        /\ \A k \in DOMAIN v : RLeq(v[k], v[j])
        /\ \A k \in 1..(j - 1) : RLess(v[k], v[j])

\* numpy.argmin(v): the first position of the smallest element of v
ArgMin(v) ==
    CHOOSE j \in DOMAIN v :
        /\ \A k \in DOMAIN v : RLeq(v[j], v[k])
        /\ \A k \in 1..(j - 1) : RLess(v[j], v[k])

\* numpy.max(v)
RMax(v) == v[ArgMax(v)]

\* x[ind] for a sequence ind of positions
Take(x, ind) == [j \in DOMAIN ind |-> x[ind[j]]]

\* lines 449-454: the column of the table that ignition_target selects
TargetColumn(rows, tgt) ==
    [i \in DOMAIN rows |->
        IF tgt.kind = "pressure" THEN rows[i].pressure
        ELSE IF tgt.kind = "temperature" THEN rows[i].temperature
        ELSE rows[i].mass_fractions[tgt.ind + 1]]

TimeColumn(rows) == [i \in DOMAIN rows |-> rows[i].time]

\* lines 476-479
TimeComp(ct) == IF ct # None THEN ct ELSE 0

\* a variant that keeps every detected peak
IgnDelays_All(time, ind, max_ind, tc) == [k \in DOMAIN ind |-> time[ind[k]] - tc]

\* a variant whose test is >= 0
IgnDelays_NonNegative(time, ind, max_ind, tc) ==
    LET upto == SelectSeq(ind, LAMBDA i : i <= max_ind)
        where == SelectSeq([j \in DOMAIN upto |-> j], LAMBDA j : time[upto[j]] - tc >= 0)
    IN  [k \in DOMAIN where |-> time[ind[where[k]]] - tc]

\* lines 481-483: time[ind[where(time[ind[ind <= max_ind]] - tc > 0)]] - tc
IgnDelays(time, ind, max_ind, tc) ==
    LET upto == SelectSeq(ind, LAMBDA i : i <= max_ind)
        where == SelectSeq([j \in DOMAIN upto |-> j], LAMBDA j : time[upto[j]] - tc > 0)
    IN  [k \in DOMAIN where |-> time[ind[where[k]]] - tc]

\* line 486: max_val, the value that line 493 halves
HalfMaxValue(target, max_ind) == RMax(target)

\* line 493: argmin(abs(target[0:max_ind] - 0.5 * max_val)), max_ind a position
HalfIndex(target, max_ind, max_val) ==
    ArgMin([h \in 1..(max_ind - 1) |-> RAbs(RSub(RScale(2, target[h]), max_val))])

Value(v) == [set |-> TRUE, nan |-> FALSE, value |-> v]

NaN == [set |-> TRUE, nan |-> TRUE, value |-> 0]

\* lines 498-508
Report(ign_delays, target, ind) ==
    /\ sim_delay' = IF Len(ign_delays) > 0 THEN Value(Last(ign_delays)) ELSE Value(0)
    /\ first_stage' = IF Len(ign_delays) > 1 THEN Value(ign_delays[1]) ELSE NaN
    /\ proc' = [target |-> target, ind |-> ind, ign_delays |-> ign_delays]
    /\ last' = Ended("process_results", "ok")

ProcRaise(res, target, ind) ==
    /\ last' = Ended("process_results", res)
    /\ proc' = [target |-> target, ind |-> ind, ign_delays |-> <<>>]
    /\ UNCHANGED <<sim_delay, first_stage>>

\* lines 473-483, for the peaks ind found in target
FromPeaks(time, target, ind) ==
    IF Len(ind) = 0
    THEN ProcRaise("ValueError", target, ind)     \* line 474: argmax of an empty array
    ELSE Report(IgnDelays(time, ind, ind[ArgMax(Take(target, ind))],
                          TimeComp(compression_time)),
                target, ind)

\* lines 484-494, for the peaks ind found in target
HalfMax(time, target, ind) ==
    IF Len(ind) = 0
    THEN ProcRaise("ValueError", target, ind)     \* line 488
    ELSE LET max_ind == ind[ArgMax(Take(target, ind))]
         IN  IF max_ind = 1
             THEN ProcRaise("ValueError", target, ind)     \* line 493, empty slice
             ELSE Report(<<time[HalfIndex(target, max_ind, HalfMaxValue(target, max_ind))]>>,
                         target, ind)

ProcessResults ==
    /\ pc = "idle"
    /\ save_file
    /\ file.exists
    /\ ignition_type \in Criteria
    /\ LET time == TimeColumn(file.rows)
           target == TargetColumn(file.rows, ignition_target)
       IN  IF ignition_type = "d/dt max"
           THEN IF GradientRaises(time)
                THEN ProcRaise("ValueError", target, <<>>)
                ELSE \E ind \in detect_peaks(first_derivative(time, target)) :
                        FromPeaks(time, first_derivative(time, target), ind)
           ELSE IF ignition_type = "max"
           THEN \E ind \in detect_peaks(target) :
                    IF Len(ind) = 0
                    THEN IF GradientRaises(time)
                         THEN ProcRaise("ValueError", target, ind)
                         ELSE \E ind2 \in detect_peaks(first_derivative(time, target)) :
                                 FromPeaks(time, first_derivative(time, target), ind2)
                    ELSE FromPeaks(time, target, ind)
           ELSE \E ind \in detect_peaks(target) : HalfMax(time, target, ind)
    /\ UNCHANGED <<inputs, ignition_type, ignition_target, gas, time_end, reac, wall,
                   reac_net, save_file, file, pc, restart, prev>>

(***************************************************************************)
(* Trajectories given to process_results.                                  *)
(***************************************************************************)
\* sample times: every tick, or alternately one and two ticks apart
TimeGrid(kind, n) ==
    [i \in 1..n |-> IF kind = "uniform" THEN i - 1 ELSE (i - 1) + (i \div 2)]

\* a table whose pressure column is sig, whose temperature column mirrors it,
\* and whose two mass-fraction columns are the mirror and sig
SignalRows(grid, sig) ==
    [i \in DOMAIN sig |->
        [time           |-> grid[i],
         temperature    |-> R(MaxSig - sig[i]),
         pressure       |-> R(sig[i]),
         volume         |-> R(1),
         mass_fractions |-> <<R(MaxSig - sig[i]), R(sig[i])>>]]

Signals == UNION {SeqsOver(0..MaxSig, n) : n \in 1..MaxLen}

\* a case that setup_case has set up and run_case has run
InitProc ==
    /\ composition_type = "mole fraction"
    /\ ign_spec = [target |-> ScalarTarget("pressure"), type |-> "max"]
    /\ species_names = <<<<"H">>, <<"h", "*">>>>
    /\ ignition_delay = 1
    /\ compression_time \in {None, MaxComp}
    /\ integ = "progressing"
    /\ ignition_type \in Criteria
    /\ ignition_target \in {NamedTarget("pressure"), NamedTarget("temperature"),
                            IndexTarget(1)}
    /\ gas = TRUE
    /\ time_end = TimeEndFactor * ignition_delay
    /\ reac = ReactorState(0, 2)
    /\ wall = TRUE
    /\ reac_net = [exists |-> TRUE, time |-> time_end]
    /\ save_file = TRUE
    /\ \E sig \in Signals, kind \in {"uniform", "irregular"} :
          file = [exists |-> TRUE, rows |-> SignalRows(TimeGrid(kind, Len(sig)), sig)]
    /\ pc = "idle"
    /\ restart = FALSE
    /\ prev = Unbound
    /\ sim_delay = NoDelay
    /\ first_stage = NoDelay
    /\ proc = NoLocals
    /\ last = Ended("run_case", "done")

NextProc == ProcessResults

SpecProc == InitProc /\ [][NextProc]_vars

(***************************************************************************)
(* Claims about run_case.                                                  *)
(***************************************************************************)
\* y is the value at x of the line through (x0, y0) and (x1, y1); y, y0 rationals
OnLine(y, x, x0, y0, x1, y1) ==
    y[1] * y0[2] * (x1 - x0)
        = y[2] * (y0[1] * (x1 - x0) + (x - x0) * (y1 * y0[2] - y0[1]))

\* the row e is the interpolation at tend between the recorded row p and the
\* reactor state r reached at time t
InterpolatedEntry(e, tend, p, t, r) ==
    /\ e.time = tend
    /\ OnLine(e.temperature, tend, p.time, p.temperature, t, r.T)
    /\ OnLine(e.pressure, tend, p.time, p.pressure, t, r.P)
    /\ OnLine(e.volume, tend, p.time, p.volume, t, r.volume)
    /\ RBetween(e.temperature, p.temperature, R(r.T))
    /\ RBetween(e.pressure, p.pressure, R(r.P))
    /\ RBetween(e.volume, p.volume, R(r.volume))
    /\ DOMAIN e.mass_fractions = DOMAIN r.Y
    /\ \A i \in DOMAIN r.Y :
        /\ OnLine(e.mass_fractions[i], tend, p.time, p.mass_fractions[i], t, r.Y[i])
        /\ RBetween(e.mass_fractions[i], p.mass_fractions[i], R(r.Y[i]))

\* C1: every integrator step of run_case that takes the integrator time
\* strictly past time_end (the very first step included) appends exactly one
\* entry, whose time is time_end and whose fields are the linear interpolation
\* at time_end between the previously recorded entry and the new state, each
\* lying between the two bracketing values; it is the last entry appended.
C1_OvershootInterpolated ==
    [][(pc = "loop" /\ reac_net'.time > time_end) =>
          /\ file'.rows = Append(file.rows, Last(file'.rows))
          /\ InterpolatedEntry(Last(file'.rows), time_end, Last(file.rows),
                               reac_net'.time, reac')
          /\ pc' = "idle"
          /\ last' = Ended("run_case", "done")]_vars

StrictlyIncreasingTimes(rows) ==
    \A i \in 1..(Len(rows) - 1) : rows[i].time < rows[i + 1].time

\* C2: whatever run_case calls were made on the set-up simulation, the
\* trajectory persisted by a completed run_case starts with an entry at time
\* 0, has strictly increasing entry times, and ends with an entry whose time
\* is time_end.
C2_TrajectoryShape ==
    last = Ended("run_case", "done") =>
        /\ file.exists
        /\ file.rows[1].time = 0
        /\ StrictlyIncreasingTimes(file.rows)
        /\ Last(file.rows).time = time_end

\* C8: a run_case call on a set-up simulation with restart=True and an
\* existing result file returns without touching the integrator or the file;
\* any other call truncates the file, writes the current state as its first
\* row and enters the integration loop while the integrator is short of
\* time_end.
C8_RestartSkip ==
    [][(pc = "idle" /\ last'.op = "run_case" /\ save_file /\ reac.exists) =>
          IF restart' /\ file.exists
          THEN /\ UNCHANGED <<file, reac, reac_net>>
               /\ pc' = "idle"
               /\ last'.res = "skipped"
          ELSE /\ file'.exists
               /\ file'.rows = <<RawRow(reac_net.time, reac)>>
               /\ UNCHANGED <<reac, reac_net>>
               /\ pc' = (IF reac_net.time < time_end THEN "loop" ELSE "idle")
               /\ last'.res = (IF reac_net.time < time_end THEN "running" ELSE "done")]_vars

\* a restart call skipped over a trajectory that an earlier call of this
\* simulation integrated
C8_Witness ==
    /\ last = Ended("run_case", "skipped")
    /\ restart
    /\ file.exists
    /\ Len(file.rows) > 1
    /\ Last(file.rows).time = time_end

\* C9: run_case stops its integration loop after a bounded number of steps
\* (LoopCap, more than any progressing run needs) and has then returned or
\* raised, also when the integrator fails to advance.
C9_LoopBounded ==
    Len(file.rows) - 1 >= LoopCap => pc = "idle"

\* the composition-type tags the claim names as supported
NamedTags == {"mole fraction", "mole percent", "mass fraction"}

\* C10: with an unsupported composition type every setup_case call raises,
\* no reactor, wall or network is ever created, 'save-file' is never added to
\* the metadata, and every run_case call raises before opening the file or
\* stepping the integrator.
C10_UnsupportedAborts ==
    composition_type \notin NamedTags =>
        /\ ~reac.exists /\ ~wall /\ ~reac_net.exists /\ ~save_file
        /\ pc = "idle"
        /\ reac_net.time = 0
        /\ file \in {NoFile, OldFile}
        /\ last.op = "setup_case" => last.res = "BaseException"
        /\ last.op = "run_case" => last.res \in {"KeyError", "AttributeError"}

\* run_case was tried after setup_case raised on the composition type
C10_Witness ==
    /\ composition_type \notin NamedTags
    /\ gas
    /\ last = Ended("run_case", "AttributeError")

(***************************************************************************)
(* Claims about the target resolver of setup_case.                         *)
(***************************************************************************)
Known(names, sp) == \E i \in DOMAIN names : names[i] = sp

\* the candidate names of a label, in the order the claim lists them
Candidates(label) ==
    IF Last(label) = "*"
    THEN <<label, Lower(label), ButLast(label), Lower(ButLast(label))>>
    ELSE <<label, Lower(label)>>

SomeCandidateKnown(names, label) ==
    \E k \in DOMAIN Candidates(label) : Known(names, Candidates(label)[k])

\* 0-based index in names of the first known candidate
FirstCandidateIndex(names, label) ==
    LET c == Candidates(label)
        k == CHOOSE k \in DOMAIN c :
                 /\ Known(names, c[k])
                 /\ \A j \in 1..(k - 1) : ~Known(names, c[j])
    IN  (CHOOSE i \in DOMAIN names : names[i] = c[k]) - 1

\* C3: once setup_case has resolved a species label of which some candidate
\* is a species of the mechanism, the ignition target is the index of the
\* first such candidate (index 0 included) and the criterion is the one the
\* case supplied.
C3_FirstCandidateIndex ==
    (/\ ignition_type # "dict"
     /\ ign_spec.target.kind = "species"
     /\ SomeCandidateKnown(species_names, ign_spec.target.name)) =>
        /\ ignition_target
             = IndexTarget(FirstCandidateIndex(species_names, ign_spec.target.name))
        /\ ignition_type = ign_spec.type

\* C4: a first setup_case call with a supported composition and a species
\* label none of whose candidates is a species of the mechanism does not
\* raise and sets the target to pressure and the criterion to 'd/dt max',
\* whatever criterion was requested.
C4_FallbackToPressure ==
    [][(/\ pc = "idle" /\ last'.op = "setup_case"
        /\ ignition_type = "dict"
        /\ composition_type \in NamedTags
        /\ ign_spec.target.kind = "species"
        /\ ~SomeCandidateKnown(species_names, ign_spec.target.name)) =>
          /\ last'.res = "ok"
          /\ ignition_target' = NamedTarget("pressure")
          /\ ignition_type' = "d/dt max"]_vars

\* the fallback replaced a requested 'max' criterion
C4_Witness ==
    /\ last = Ended("setup_case", "ok")
    /\ ign_spec.target.kind = "species"
    /\ ~SomeCandidateKnown(species_names, ign_spec.target.name)
    /\ ign_spec.type = "max"
    /\ ignition_target = NamedTarget("pressure")
    /\ ignition_type = "d/dt max"

(***************************************************************************)
(* Claims about process_results.                                           *)
(***************************************************************************)
\* whatever policy the peak detector applies, it finds no peak in x
NoPeakIn(x) == \A i \in 2..(Len(x) - 1) : ~(RLess(x[i - 1], x[i]) /\ RLess(x[i + 1], x[i]))

\* peak detection comes back empty for the stored trajectory: on the series
\* the criterion searches and, for 'max', on its derivative as well
NoPeaksFound ==
    LET time == TimeColumn(file.rows)
        target == TargetColumn(file.rows, ignition_target)
    IN  /\ Len(file.rows) >= 3
        /\ ignition_type \in {"max", "1/2 max"} => NoPeakIn(target)
        /\ ignition_type \in {"max", "d/dt max"} => NoPeakIn(first_derivative(time, target))

\* C5: when peak detection returns no peaks (for 'max' also on the
\* derivative), process_results does not raise, reports an overall delay of
\* exactly 0 and a first-stage delay of not-a-number.
C5_NoPeaksReportsZero ==
    (last.op = "process_results" /\ NoPeaksFound) =>
        /\ last.res = "ok"
        /\ sim_delay = Value(0)
        /\ first_stage = NaN

\* the position of the largest detected peak (the earliest, among equals)
LargestPeak(target, ind) ==
    CHOOSE p \in {ind[j] : j \in DOMAIN ind} :
        /\ \A j \in DOMAIN ind : RLeq(target[ind[j]], target[p])
        /\ \A j \in DOMAIN ind : ind[j] < p => RLess(target[ind[j]], target[p])

\* the detected peaks at or before the largest one whose time, less the
\* compression time, is positive
QualifyingPeaks ==
    {p \in {proc.ind[j] : j \in DOMAIN proc.ind} :
        /\ p <= LargestPeak(proc.target, proc.ind)
        /\ file.rows[p].time - (IF compression_time = None THEN 0 ELSE compression_time) > 0}

\* C6: with criterion 'max' or 'd/dt max', after process_results returned for
\* a trajectory with two or more qualifying peaks the first-stage delay is a
\* number strictly less than the overall delay; with exactly one qualifying
\* peak the first-stage delay is not-a-number.
C6_FirstStageBeforeOverall ==
    (last = Ended("process_results", "ok") /\ ignition_type \in {"max", "d/dt max"}) =>
        /\ Cardinality(QualifyingPeaks) >= 2 =>
              /\ first_stage.set /\ ~first_stage.nan
              /\ sim_delay.set /\ ~sim_delay.nan
              /\ first_stage.value < sim_delay.value
        /\ Cardinality(QualifyingPeaks) = 1 => first_stage = NaN

\* two peaks were detected on an irregular time grid, both qualified and the
\* two delays were reported
C6_Witness ==
    /\ last = Ended("process_results", "ok")
    /\ ignition_type = "max"
    /\ Cardinality(QualifyingPeaks) = 2
    /\ compression_time # None
    /\ file.rows[2].time = 2
    /\ ~first_stage.nan
    /\ first_stage.value < sim_delay.value

\* twice the distance of sample h of x from half of v
HalfDistance(x, h, v) == RAbs(RSub(RScale(2, x[h]), v))

\* C7: with criterion '1/2 max', the delay process_results reports is the
\* time of a sample before the largest detected peak whose value is closest,
\* among the samples before that peak, to half of that peak's value; the
\* first-stage delay is not-a-number.
C7_HalfOfLargestPeak ==
    (last = Ended("process_results", "ok") /\ ignition_type = "1/2 max") =>
        /\ first_stage = NaN
        /\ LET p == LargestPeak(proc.target, proc.ind)
               x == proc.target
           IN  \E h \in 1..(p - 1) :
                  /\ sim_delay = Value(file.rows[h].time)
                  /\ \A k \in 1..(p - 1) :
                        RLeq(HalfDistance(x, h, x[p]), HalfDistance(x, k, x[p]))

\* the time of row p less the compression time
AdjustedTime(p) ==
    file.rows[p].time - (IF compression_time = None THEN 0 ELSE compression_time)

\* C11: with criterion 'max' or 'd/dt max', the ignition-event sequence of a
\* process_results call that returned holds, in increasing time order and
\* once each, the adjusted times of the detected peaks that are at or before
\* the largest detected peak and have a positive adjusted time; the overall
\* delay is its last element (0 when it is empty), which is the largest
\* peak's adjusted time when that is positive; the first-stage delay is its
\* first element when it has more than one element, not-a-number otherwise.
C11_EventSequence ==
    (last = Ended("process_results", "ok") /\ ignition_type \in {"max", "d/dt max"}) =>
        LET d == proc.ign_delays
            big == LargestPeak(proc.target, proc.ind)
        IN  /\ Len(d) = Cardinality(QualifyingPeaks)
            /\ {d[k] : k \in DOMAIN d} = {AdjustedTime(p) : p \in QualifyingPeaks}
            /\ \A k \in 1..(Len(d) - 1) : d[k] < d[k + 1]
            /\ sim_delay = (IF Len(d) > 0 THEN Value(d[Len(d)]) ELSE Value(0))
            /\ AdjustedTime(big) > 0 => sim_delay = Value(AdjustedTime(big))
            /\ first_stage = (IF Len(d) > 1 THEN Value(d[1]) ELSE NaN)

\* two peaks were detected in a case with a compression time: the first is
\* the largest and the only member of the sequence, the second comes after
\* it and is left out
C11_Witness ==
    /\ last = Ended("process_results", "ok")
    /\ ignition_type = "max"
    /\ compression_time # None
    /\ Len(proc.ind) = 2
    /\ Len(proc.ign_delays) = 1
    /\ LargestPeak(proc.target, proc.ind) = proc.ind[1]
    /\ sim_delay = Value(AdjustedTime(proc.ind[1]))
    /\ first_stage = NaN

====
